---------------------------- MODULE Spec2Model ----------------------------
(***************************************************************************)
(* Retrieval-market payment schedule (retrievalmarket/types.go, Params)    *)
(* and the DAG-store mount API's two-pass piece fetch                      *)
(* (dagstore/mount_api.go, FetchUnsealedPiece).                            *)
(*                                                                         *)
(* uint64 is scaled to UintBits bits: every uint64 addition is taken       *)
(* modulo Modulus = 2^UintBits, int64(x) reinterprets the top bit as the   *)
(* sign, and big.Int.Uint64() keeps the low UintBits bits.                 *)
(* abi.TokenAmount is big.Int, a struct holding a possibly nil pointer to  *)
(* an arbitrary-precision integer.                                         *)
(***************************************************************************)
EXTENDS Integers, Sequences, FiniteSets, TLC

VARIABLES
    p,                \* Params: the price terms of the deal
    currentInterval,  \* argument of IntervalLowerBound / nextInterval
    fundsReceived,    \* argument of OutstandingBalance / NextInterval
    sent,             \* argument of OutstandingBalance
    inFinalization,   \* argument of OutstandingBalance
    called,           \* which method has been applied ("none" before the call)
    ret,              \* its outcome
    loop,             \* locals of an interval loop that is followed step by step
    payments,         \* payments the consumer has made since the start
    amount,           \* a TokenAmount that is serialized
    wire,             \* its serialized form
    decoded,          \* what is read back from wire
    pc,               \* FetchUnsealedPiece: position in the function body
    pieceInfo,        \* what pieceStore.GetPieceInfo answers
    dealIdx,          \* index of the deal the current range loop is at
    calls,            \* log of the calls made on the RetrievalProviderNode
    cancelled,        \* ctx has been cancelled by the caller
    lastErr,          \* local lastErr of FetchUnsealedPiece
    fetched           \* (reader, err) returned by FetchUnsealedPiece

scheduleVars == <<p, currentInterval, fundsReceived, sent, inFinalization, called, ret,
                  loop, payments>>
fetchVars == <<pc, pieceInfo, dealIdx, calls, cancelled, lastErr, fetched>>
tokenVars == <<amount, wire, decoded>>
vars == <<p, currentInterval, fundsReceived, sent, inFinalization, called, ret,
          loop, payments, amount, wire, decoded,
          pc, pieceInfo, dealIdx, calls, cancelled, lastErr, fetched>>

---------------------------------------------------------------------------
(* Bounds *)

UintBits == 3
MaxPrice == 2
MaxUnsealPrice == 2
MaxFunds == 20
MaxDeals == 3

Modulus == 2 ^ UintBits
MaxUint == Modulus - 1
Uint == 0 .. MaxUint

---------------------------------------------------------------------------
(* abi.TokenAmount and the outcomes of a call *)

Nil == [isNil |-> TRUE, int |-> 0]
Tok(n) == [isNil |-> FALSE, int |-> n]

Value(v) == [kind |-> "value", val |-> v]
Panic == [kind |-> "panic", val |-> 0]
Diverges == [kind |-> "diverges", val |-> 0]

\* uint64 addition
AddU(a, b) == (a + b) % Modulus

\* int64(x) of a uint64 x
ToInt64(x) == IF x >= Modulus \div 2 THEN x - Modulus ELSE x

\* big.Int.Uint64() of a positive integer: its low bits
Uint64Of(n) == n % Modulus

\* The state <<target, intervalSize>> of either interval loop is periodic in the
\* iteration count with a period dividing 2 * Modulus, so a loop that has not
\* left after LoopPeriod iterations never leaves.
LoopPeriod == 2 * Modulus

---------------------------------------------------------------------------
(* Params.IntervalLowerBound *)

RECURSIVE IntervalLowerBoundLoop(_, _, _, _, _, _)
IntervalLowerBoundLoop(q, cur, intervalSize, lowerBound, target, n) ==
    IF ~(target <= cur) THEN Value(lowerBound)
    ELSE IF n = 0 THEN Diverges
    ELSE IntervalLowerBoundLoop(q, cur,
                                AddU(intervalSize, q.PaymentIntervalIncrease),
                                target,
                                AddU(target, intervalSize),
                                n - 1)

IntervalLowerBound(q, cur) ==
    IntervalLowerBoundLoop(q, cur, q.PaymentInterval, 0, 0, LoopPeriod)

(* Params.nextInterval *)

RECURSIVE nextIntervalLoop(_, _, _, _, _)
nextIntervalLoop(q, cur, intervalSize, nextInt, n) ==
    IF ~(nextInt <= cur) THEN Value(nextInt)
    ELSE IF n = 0 THEN Diverges
    ELSE nextIntervalLoop(q, cur,
                          AddU(intervalSize, q.PaymentIntervalIncrease),
                          AddU(nextInt, intervalSize),
                          n - 1)

nextInterval(q, cur) ==
    nextIntervalLoop(q, cur, q.PaymentInterval, 0, LoopPeriod)

(* Params.OutstandingBalance; funds is a non-nil TokenAmount given as its integer *)

MinimumBytesToPay(lowerBound, bytesSent, fin) ==
    IF fin THEN bytesSent ELSE lowerBound

TotalPaymentRequired(minimumBytesToPay, pricePerByte) ==
    ToInt64(minimumBytesToPay) * pricePerByte

Owed(totalPaymentRequired, transferPayment) ==
    LET owed == totalPaymentRequired - transferPayment
    IN  IF owed < 0 THEN 0 ELSE owed

OutstandingBalance(q, funds, bytesSent, fin) ==
    IF q.UnsealPrice.isNil THEN Panic                 \* LessThan reads the nil pointer
    ELSE IF funds < q.UnsealPrice.int THEN Value(q.UnsealPrice.int - funds)
    ELSE IF q.PricePerByte.isNil THEN Panic           \* IsZero reads the nil pointer
    ELSE IF q.PricePerByte.int = 0 THEN Value(0)
    ELSE LET transferPayment == funds - q.UnsealPrice.int
             lb == IntervalLowerBound(q, bytesSent)
         IN  IF lb.kind # "value" THEN lb
             ELSE Value(Owed(TotalPaymentRequired(
                                 MinimumBytesToPay(lb.val, bytesSent, fin),
                                 q.PricePerByte.int),
                             transferPayment))

(* Params.NextInterval *)

NilOrZero(a) == a.isNil \/ a.int = 0

BytesPaid(q, funds) ==
    (IF NilOrZero(q.UnsealPrice) THEN funds ELSE funds - q.UnsealPrice.int)
        \div q.PricePerByte.int

NextInterval(q, funds) ==
    IF NilOrZero(q.PricePerByte) THEN Value(0)
    ELSE LET bytesPaid == BytesPaid(q, funds)
             cur == IF bytesPaid > 0 THEN Uint64Of(bytesPaid) ELSE 0
         IN  nextInterval(q, cur)

---------------------------------------------------------------------------
(* The payment-schedule methods as operations on drawn inputs *)

TokenAmounts(max) == {Nil} \cup {Tok(n) : n \in 0 .. max}

NoRet == [kind |-> "none", val |-> 0]

\* FetchUnsealedPiece has not returned; a nil io.ReadCloser is reader 0
NotReturned == [reader |-> 0, err |-> "unset"]

\* No interval loop is being followed
LoopIdle == [pc |-> "idle", cur |-> 0, intervalSize |-> 0, lowerBound |-> 0, target |-> 0]

\* No TokenAmount is being serialized
TokenIdle ==
    /\ amount = Nil
    /\ wire = <<>>
    /\ decoded = Nil

FetchIdle ==
    /\ pc = "idle"
    /\ pieceInfo = [err |-> FALSE, Deals |-> 0]
    /\ dealIdx = 0
    /\ calls = <<>>
    /\ cancelled = FALSE
    /\ lastErr = "unset"
    /\ fetched = NotReturned

\* Inputs of IntervalLowerBound and nextInterval: the two interval fields and
\* the argument range over the whole unsigned range.
InitInterval ==
    /\ p \in [PricePerByte : {Tok(1)}, PaymentInterval : Uint,
              PaymentIntervalIncrease : Uint, UnsealPrice : {Tok(0)}]
    /\ currentInterval \in Uint
    /\ fundsReceived = 0
    /\ sent = 0
    /\ inFinalization = FALSE
    /\ called = "none"
    /\ ret = NoRet
    /\ loop = LoopIdle
    /\ payments = 0
    /\ TokenIdle
    /\ FetchIdle

CallIntervalLowerBound ==
    /\ called = "none"
    /\ called' = "IntervalLowerBound"
    /\ ret' = IntervalLowerBound(p, currentInterval)
    /\ UNCHANGED <<p, currentInterval, fundsReceived, sent, inFinalization, loop, payments>>
    /\ UNCHANGED <<fetchVars, tokenVars>>

CallnextInterval ==
    /\ called = "none"
    /\ called' = "nextInterval"
    /\ ret' = nextInterval(p, currentInterval)
    /\ UNCHANGED <<p, currentInterval, fundsReceived, sent, inFinalization, loop, payments>>
    /\ UNCHANGED <<fetchVars, tokenVars>>

NextIntervalSpec ==
    \/ CallIntervalLowerBound
    \/ CallnextInterval

SpecInterval == InitInterval /\ [][NextIntervalSpec]_vars

\* Inputs of OutstandingBalance.
InitBalance ==
    /\ p \in [PricePerByte : TokenAmounts(MaxPrice), PaymentInterval : Uint,
              PaymentIntervalIncrease : Uint, UnsealPrice : TokenAmounts(MaxUnsealPrice)]
    /\ currentInterval = 0
    /\ fundsReceived \in -1 .. MaxFunds
    /\ sent \in Uint
    /\ inFinalization \in BOOLEAN
    /\ called = "none"
    /\ ret = NoRet
    /\ loop = LoopIdle
    /\ payments = 0
    /\ TokenIdle
    /\ FetchIdle

CallOutstandingBalance ==
    /\ called = "none"
    /\ called' = "OutstandingBalance"
    /\ ret' = OutstandingBalance(p, fundsReceived, sent, inFinalization)
    /\ UNCHANGED <<p, currentInterval, fundsReceived, sent, inFinalization, loop, payments>>
    /\ UNCHANGED <<fetchVars, tokenVars>>

SpecBalance == InitBalance /\ [][CallOutstandingBalance]_vars

\* Inputs of NextInterval.
InitFunds ==
    /\ p \in [PricePerByte : TokenAmounts(MaxPrice), PaymentInterval : Uint,
              PaymentIntervalIncrease : Uint, UnsealPrice : TokenAmounts(MaxUnsealPrice)]
    /\ currentInterval = 0
    /\ fundsReceived \in -1 .. MaxFunds
    /\ sent = 0
    /\ inFinalization = FALSE
    /\ called = "none"
    /\ ret = NoRet
    /\ loop = LoopIdle
    /\ payments = 0
    /\ TokenIdle
    /\ FetchIdle

CallNextInterval ==
    /\ called = "none"
    /\ called' = "NextInterval"
    /\ ret' = NextInterval(p, fundsReceived)
    /\ UNCHANGED <<p, currentInterval, fundsReceived, sent, inFinalization, loop, payments>>
    /\ UNCHANGED <<fetchVars, tokenVars>>

SpecFunds == InitFunds /\ [][CallNextInterval]_vars

---------------------------------------------------------------------------
(* lotusMountApiImpl.FetchUnsealedPiece                                     *)
(*                                                                         *)
(* The function is followed call by call: between two calls on the         *)
(* RetrievalProviderNode the caller may cancel ctx.  Every call is logged  *)
(* in calls; the reader an UnsealSector call hands back is identified by   *)
(* the position of that call in the log.  What IsUnsealed and UnsealSector *)
(* answer is the node's choice; context.Canceled can be answered only once *)
(* ctx is cancelled.                                                       *)

ErrPieceInfo == "failed to fetch pieceInfo"
ErrNoDeals == "no storage deals for Piece"
ErrNoSectors == "no sectors found to unseal from"
ErrCanceled == "context canceled"
ErrIsUnsealed == "availability check failed"

UnsealErrors ==
    {"unseal failed", "sector not found"} \cup (IF cancelled THEN {ErrCanceled} ELSE {})

Call(op, pass, out, e) ==
    [op |-> op, deal |-> dealIdx, pass |-> pass, out |-> out, err |-> e,
     afterCancel |-> cancelled]

InitFetch ==
    /\ p = [PricePerByte |-> Tok(0), PaymentInterval |-> 0,
            PaymentIntervalIncrease |-> 0, UnsealPrice |-> Tok(0)]
    /\ currentInterval = 0
    /\ fundsReceived = 0
    /\ sent = 0
    /\ inFinalization = FALSE
    /\ called = "none"
    /\ ret = NoRet
    /\ loop = LoopIdle
    /\ payments = 0
    /\ TokenIdle
    /\ pc = "start"
    /\ pieceInfo \in [err : BOOLEAN, Deals : 0 .. MaxDeals]
    /\ dealIdx = 0
    /\ calls = <<>>
    /\ cancelled = FALSE
    /\ lastErr = "unset"
    /\ fetched = NotReturned

\* return reader, err
Return(reader, e) ==
    /\ pc' = "done"
    /\ fetched' = [reader |-> reader, err |-> e]

\* m.pieceStore.GetPieceInfo and the two early returns
GetPieceInfo ==
    /\ pc = "start"
    /\ IF pieceInfo.err
       THEN Return(0, ErrPieceInfo) /\ UNCHANGED dealIdx
       ELSE IF pieceInfo.Deals <= 0
            THEN Return(0, ErrNoDeals) /\ UNCHANGED dealIdx
            ELSE pc' = "pass1_check" /\ dealIdx' = 1 /\ UNCHANGED fetched
    /\ UNCHANGED <<pieceInfo, calls, cancelled, lastErr>>
    /\ UNCHANGED <<scheduleVars, tokenVars>>

\* The first range loop moves to its next deal, or ends: lastErr is then
\* initialised and the second range loop starts at the first deal.
NextPass1Deal ==
    IF dealIdx < pieceInfo.Deals
    THEN pc' = "pass1_check" /\ dealIdx' = dealIdx + 1 /\ UNCHANGED lastErr
    ELSE pc' = "pass2_open" /\ dealIdx' = 1 /\ lastErr' = ErrNoSectors

\* Mutant: the error of IsUnsealed is not skipped
Pass1OpensOnError(out) == out # "false"

\* Mutant: the isUnsealed test is dropped, only the error is skipped
Pass1OpensUnchecked(out) == out # "err"

\* if err != nil { continue }; if isUnsealed { ... }
Pass1Opens(out) == out = "true"

\* isUnsealed, err := m.rm.IsUnsealed(...)
Pass1IsUnsealed ==
    /\ pc = "pass1_check"
    /\ \E out \in {"true", "false", "err"} :
         /\ calls' = Append(calls, Call("IsUnsealed", 1, out,
                                        IF out = "err" THEN ErrIsUnsealed ELSE "nil"))
         /\ IF Pass1Opens(out)
            THEN pc' = "pass1_open" /\ UNCHANGED <<dealIdx, lastErr>>
            ELSE NextPass1Deal
    /\ UNCHANGED <<pieceInfo, cancelled, fetched>>
    /\ UNCHANGED <<scheduleVars, tokenVars>>

\* if err == nil { return reader, nil } in the first loop
Pass1Returns(out) == out = "ok"

\* reader, err := m.rm.UnsealSector(...) in the first loop
Pass1UnsealSector ==
    /\ pc = "pass1_open"
    /\ \/ /\ calls' = Append(calls, Call("UnsealSector", 1, "ok", "nil"))
          /\ IF Pass1Returns("ok")
             THEN Return(Len(calls) + 1, "nil") /\ UNCHANGED <<dealIdx, lastErr>>
             ELSE NextPass1Deal /\ UNCHANGED fetched
       \/ /\ \E e \in UnsealErrors :
               calls' = Append(calls, Call("UnsealSector", 1, "err", e))
          /\ NextPass1Deal
          /\ UNCHANGED fetched
    /\ UNCHANGED <<pieceInfo, cancelled>>
    /\ UNCHANGED <<scheduleVars, tokenVars>>

\* Mutant: the second loop goes on after a successful open
Pass2NeverReturns(out) == FALSE

\* if err == nil { return reader, nil } in the second loop
Pass2Returns(out) == out = "ok"

\* Mutant: the error of a failed open is not recorded
RecordErrDropped(prev, e) == prev

\* lastErr = err
RecordErr(prev, e) == e

\* The second range loop moves to its next deal, or ends: return nil, lastErr
NextPass2Deal(newLastErr) ==
    /\ lastErr' = newLastErr
    /\ IF dealIdx < pieceInfo.Deals
       THEN pc' = "pass2_open" /\ dealIdx' = dealIdx + 1 /\ UNCHANGED fetched
       ELSE Return(0, newLastErr) /\ UNCHANGED dealIdx

\* reader, err := m.rm.UnsealSector(...) in the second loop
Pass2UnsealSector ==
    /\ pc = "pass2_open"
    /\ \/ /\ calls' = Append(calls, Call("UnsealSector", 2, "ok", "nil"))
          /\ IF Pass2Returns("ok")
             THEN Return(Len(calls) + 1, "nil") /\ UNCHANGED <<dealIdx, lastErr>>
             ELSE NextPass2Deal(RecordErr(lastErr, "nil"))
       \/ \E e \in UnsealErrors :
            /\ calls' = Append(calls, Call("UnsealSector", 2, "err", e))
            /\ NextPass2Deal(RecordErr(lastErr, e))
    /\ UNCHANGED <<pieceInfo, cancelled>>
    /\ UNCHANGED <<scheduleVars, tokenVars>>

\* The caller cancels ctx while FetchUnsealedPiece runs.
Cancel ==
    /\ pc \in {"start", "pass1_check", "pass1_open", "pass2_open"}
    /\ ~cancelled
    /\ cancelled' = TRUE
    /\ UNCHANGED <<pc, pieceInfo, dealIdx, calls, lastErr, fetched>>
    /\ UNCHANGED <<scheduleVars, tokenVars>>

NextFetch ==
    \/ GetPieceInfo
    \/ Pass1IsUnsealed
    \/ Pass1UnsealSector
    \/ Pass2UnsealSector
    \/ Cancel

SpecFetch == InitFetch /\ [][NextFetch]_vars

---------------------------------------------------------------------------
(* Properties of the payment schedule *)

NonNilPrices == ~p.PricePerByte.isNil /\ ~p.UnsealPrice.isNil

Max0(x) == IF x < 0 THEN 0 ELSE x

\* minimumBytesToPay as the claims state it, on the inputs of the state
ClaimedMinimumBytes ==
    IF inFinalization THEN sent ELSE IntervalLowerBound(p, sent).val

ClaimedRequiredPayment ==
    IF p.PricePerByte.int = 0 THEN 0 ELSE ClaimedMinimumBytes * p.PricePerByte.int

\* C1: for non-nil, non-negative prices, a balance OutstandingBalance returns is
\* >= 0, and it is 0 exactly when fundsReceived >= unsealPrice +
\* minimumBytesToPay * pricePerByte, with minimumBytesToPay =
\* IntervalLowerBound(bytesSent), or bytesSent in finalization.
C1_BalanceZeroIffCovered ==
    (called = "OutstandingBalance" /\ NonNilPrices /\ ret.kind = "value") =>
        /\ ret.val >= 0
        /\ (ret.val = 0) <=>
               (fundsReceived >= p.UnsealPrice.int + ClaimedRequiredPayment)

\* The three-branch reference of C2
ReferenceBalance ==
    IF fundsReceived < p.UnsealPrice.int THEN p.UnsealPrice.int - fundsReceived
    ELSE IF p.PricePerByte.int = 0 THEN 0
    ELSE Max0(ClaimedMinimumBytes * p.PricePerByte.int
              - (fundsReceived - p.UnsealPrice.int))

\* C2: a balance OutstandingBalance returns equals the three-branch reference:
\* unsealPrice - fundsReceived below the unseal price, else 0 for a zero price,
\* else max(0, minimumBytesToPay * pricePerByte - (fundsReceived - unsealPrice)).
C2_BalanceEqualsReference ==
    (called = "OutstandingBalance" /\ NonNilPrices /\ ret.kind = "value") =>
        ret.val = ReferenceBalance

\* The interval boundaries B(0) = 0, B(k) = B(k-1) + paymentInterval +
\* (k-1) * paymentIntervalIncrease, as unbounded integers.
RECURSIVE Boundary(_, _)
Boundary(q, k) ==
    IF k = 0 THEN 0
    ELSE Boundary(q, k - 1) + q.PaymentInterval + (k - 1) * q.PaymentIntervalIncrease

\* Unless both interval fields are 0, B(k) >= k - 1, so every boundary that is
\* <= MaxUint, and the first one above it, has an index in this range.
BoundaryIndex == 0 .. (Modulus + 1)

\* C3: a value IntervalLowerBound returns is the largest boundary <=
\* currentInterval, and a value nextInterval returns is the first boundary >
\* currentInterval.
C3_ResultsAreAdjacentBoundaries ==
    /\ (called = "IntervalLowerBound" /\ ret.kind = "value") =>
           \E k \in BoundaryIndex :
               /\ Boundary(p, k) = ret.val
               /\ Boundary(p, k) <= currentInterval
               /\ \A j \in BoundaryIndex :
                      Boundary(p, j) <= currentInterval => Boundary(p, j) <= Boundary(p, k)
    /\ (called = "nextInterval" /\ ret.kind = "value") =>
           \E k \in BoundaryIndex :
               /\ Boundary(p, k) = ret.val
               /\ Boundary(p, k) > currentInterval
               /\ \A j \in BoundaryIndex :
                      Boundary(p, j) > currentInterval => Boundary(p, j) >= Boundary(p, k)

\* C4: for fixed Params, the values IntervalLowerBound and nextInterval return
\* are non-decreasing in currentInterval, and a value nextInterval returns for
\* paymentInterval > 0 is greater than currentInterval.
C4_IntervalsMonotone ==
    /\ (called = "IntervalLowerBound" /\ ret.kind = "value") =>
           \A y \in Uint :
               (currentInterval <= y /\ IntervalLowerBound(p, y).kind = "value")
                   => ret.val <= IntervalLowerBound(p, y).val
    /\ (called = "nextInterval" /\ ret.kind = "value") =>
           /\ \A y \in Uint :
                  (currentInterval <= y /\ nextInterval(p, y).kind = "value")
                      => ret.val <= nextInterval(p, y).val
           /\ p.PaymentInterval > 0 => ret.val > currentInterval

\* C5: NextInterval returns 0 for a nil or zero pricePerByte, and otherwise what
\* nextInterval gives for bytesPaid = max(0, fundsReceived - unsealPrice) /
\* pricePerByte.
C5_NextIntervalOfBytesPaid ==
    (called = "NextInterval" /\ ~p.UnsealPrice.isNil) =>
        ret = IF NilOrZero(p.PricePerByte) THEN Value(0)
              ELSE nextInterval(p, Max0(fundsReceived - p.UnsealPrice.int)
                                        \div p.PricePerByte.int)

\* C10: with a nil pricePerByte, OutstandingBalance and NextInterval return,
\* and return what they return for the same Params with pricePerByte zero.
C10_NilPriceIsZeroPrice ==
    (called = "OutstandingBalance" /\ p.PricePerByte.isNil /\ ~p.UnsealPrice.isNil) =>
        LET zero == [p EXCEPT !.PricePerByte = Tok(0)]
        IN  /\ ret.kind = "value"
            /\ ret = OutstandingBalance(zero, fundsReceived, sent, inFinalization)
            /\ NextInterval(p, fundsReceived) = Value(0)
            /\ NextInterval(p, fundsReceived) = NextInterval(zero, fundsReceived)

---------------------------------------------------------------------------
(* Properties of FetchUnsealedPiece *)

CallIndex == 1 .. Len(calls)
Opens == {k \in CallIndex : calls[k].op = "UnsealSector"}
Pass2Calls == {k \in CallIndex : calls[k].pass = 2}
Available(k) == calls[k].op = "IsUnsealed" /\ calls[k].out = "true"
FirstAvailable(k) == Available(k) /\ \A j \in 1 .. (k - 1) : ~Available(j)

\* C6: when the open of the first location that reports readily available
\* succeeds, its reader is returned, nothing but availability checks in catalog
\* order came before, and no call follows.  With three locations of which only
\* the third is available, the first open is on the third, and locations one
\* and two are opened only after the third's open failed.
C6_FirstAvailableOpenReturned ==
    /\ \A k \in CallIndex :
           (FirstAvailable(k) /\ k + 1 <= Len(calls) /\ calls[k + 1].out = "ok") =>
               /\ calls[k + 1].op = "UnsealSector"
               /\ calls[k + 1].deal = calls[k].deal
               /\ pc = "done"
               /\ fetched = [reader |-> k + 1, err |-> "nil"]
               /\ Len(calls) = k + 1
               /\ \A j \in 1 .. k : calls[j].op = "IsUnsealed" /\ calls[j].deal = j
    /\ (/\ pieceInfo.Deals = 3
        /\ Len(calls) >= 3
        /\ \A j \in 1 .. 3 : calls[j].op = "IsUnsealed" /\ calls[j].deal = j
        /\ ~Available(1) /\ ~Available(2) /\ Available(3)) =>
           \A k \in Opens :
               /\ (\A j \in Opens : k <= j) => calls[k].deal = 3
               /\ calls[k].deal \in {1, 2} =>
                      \E j \in Opens : j < k /\ calls[j].deal = 3 /\ calls[j].out = "err"

C6_Witness ==
    /\ pc = "done"
    /\ pieceInfo.Deals = 3
    /\ Len(calls) = 4
    /\ ~Available(1) /\ ~Available(2) /\ FirstAvailable(3)
    /\ calls[4].op = "UnsealSector" /\ calls[4].deal = 3 /\ calls[4].out = "ok"
    /\ fetched = [reader |-> 4, err |-> "nil"]

\* C7: the second pass starts only when the first pass returned nothing; its
\* calls are UnsealSector on the locations in catalog order; the reader of the
\* first one that succeeds is returned and no call follows it.
C7_SecondPassFirstSuccess ==
    /\ pc = "pass2_open" => fetched = NotReturned
    /\ \A k \in Pass2Calls :
           /\ \A j \in CallIndex : calls[j].pass = 1 => (j < k /\ calls[j].out # "ok")
           /\ calls[k].op = "UnsealSector"
           /\ calls[k].deal = Cardinality({j \in Pass2Calls : j <= k})
           /\ calls[k].out = "ok" =>
                  /\ k = Len(calls)
                  /\ pc = "done"
                  /\ fetched = [reader |-> k, err |-> "nil"]

C7_Witness ==
    /\ pc = "done"
    /\ \E k \in Pass2Calls :
           /\ calls[k].deal = 2
           /\ calls[k].out = "ok"
           /\ calls[k - 1].pass = 2 /\ calls[k - 1].out = "err"
           /\ fetched.reader = k

\* The last error the second pass recorded; the no-locations error if none
LastRecorded ==
    LET errs == {k \in Pass2Calls : calls[k].out = "err"}
    IN  IF errs = {} THEN ErrNoDeals
        ELSE calls[CHOOSE k \in errs : \A j \in errs : j <= k].err

NoOpenSucceeded == \A k \in Opens : calls[k].out # "ok"

\* Locations known to FetchUnsealedPiece: none when the lookup failed
KnownLocations == IF pieceInfo.err THEN 0 ELSE pieceInfo.Deals

\* C8 as stated: with no known locations the call fails with the no-locations
\* error before any call; with known locations it fails exactly when no open
\* succeeded, with the last recorded error; an error comes with no reader.
C8_Original ==
    pc = "done" =>
        /\ KnownLocations = 0 => (fetched = [reader |-> 0, err |-> ErrNoDeals] /\ calls = <<>>)
        /\ KnownLocations > 0 =>
               /\ fetched.err # "nil" <=> NoOpenSucceeded
               /\ fetched.err # "nil" => fetched.err = LastRecorded
        /\ fetched.err # "nil" => fetched.reader = 0

\* C8 amended: a failed GetPieceInfo lookup is a third failure, returned as the
\* wrapped lookup error before any call; the rest as stated.
C8_FailureCases ==
    pc = "done" =>
        /\ pieceInfo.err =>
               (fetched = [reader |-> 0, err |-> ErrPieceInfo] /\ calls = <<>>)
        /\ (~pieceInfo.err /\ pieceInfo.Deals = 0) =>
               (fetched = [reader |-> 0, err |-> ErrNoDeals] /\ calls = <<>>)
        /\ (~pieceInfo.err /\ pieceInfo.Deals > 0) =>
               /\ fetched.err # "nil" <=> NoOpenSucceeded
               /\ fetched.err # "nil" => fetched.err = LastRecorded
        /\ fetched.err # "nil" => fetched.reader = 0

C8_Witness ==
    /\ pc = "done"
    /\ ~pieceInfo.err
    /\ pieceInfo.Deals = 2
    /\ \E k \in Opens : calls[k].pass = 1 /\ calls[k].out = "err"
    /\ Cardinality(Pass2Calls) = 2
    /\ calls[Len(calls) - 1].err # calls[Len(calls)].err
    /\ fetched = [reader |-> 0, err |-> calls[Len(calls)].err]

\* C9: once ctx is cancelled, at most the call that was in flight is made, and
\* the call fails with the cancellation error.
C9_StopsOnCancel ==
    /\ Cardinality({k \in CallIndex : calls[k].afterCancel}) <= 1
    /\ (pc = "done" /\ \E k \in CallIndex : calls[k].afterCancel) =>
           fetched.err = ErrCanceled

CheckFailed(k) == calls[k].op = "IsUnsealed" /\ calls[k].out = "err"

\* What C12 says of a failed availability check, up to the second pass: its
\* error is not what the call returns, its location is not opened in the first
\* pass, and the first pass goes on to the next location (or ends, after the
\* last one, without returning).
CheckErrorSkipped(k) ==
    /\ fetched.err # calls[k].err
    /\ \A j \in Opens : ~(calls[j].pass = 1 /\ calls[j].deal = calls[k].deal)
    /\ k < Len(calls) =>
           IF calls[k].deal < pieceInfo.Deals
           THEN calls[k + 1].op = "IsUnsealed" /\ calls[k + 1].deal = calls[k].deal + 1
           ELSE calls[k + 1].pass = 2
    /\ k = Len(calls) =>
           IF calls[k].deal < pieceInfo.Deals
           THEN pc = "pass1_check" /\ dealIdx = calls[k].deal + 1
           ELSE pc = "pass2_open" /\ dealIdx = 1

FirstPassReturnedNothing ==
    pc = "done" /\ \A j \in CallIndex : calls[j].pass = 1 => calls[j].out # "ok"

---------------------------------------------------------------------------
(* The interval loops followed one iteration at a time                     *)
(*                                                                         *)
(* loop.target is the local target of IntervalLowerBound and the local     *)
(* nextInterval of nextInterval; loop.cur is the currentInterval argument. *)
(* A running call keeps running, which is the fairness of SpecLoop.        *)

InitLoop ==
    /\ p \in [PricePerByte : {Tok(0), Tok(1)}, PaymentInterval : Uint,
              PaymentIntervalIncrease : Uint, UnsealPrice : {Tok(0)}]
    /\ currentInterval \in Uint
    /\ fundsReceived \in {0, 1, MaxUint, Modulus}
    /\ sent = 0
    /\ inFinalization = FALSE
    /\ called = "none"
    /\ ret = NoRet
    /\ loop = LoopIdle
    /\ payments = 0
    /\ TokenIdle
    /\ FetchIdle

LoopStart(cur) ==
    [pc |-> "test", cur |-> cur, intervalSize |-> p.PaymentInterval,
     lowerBound |-> 0, target |-> 0]

\* Entry of IntervalLowerBound(currentInterval)
EnterIntervalLowerBound ==
    /\ called = "none"
    /\ called' = "IntervalLowerBound"
    /\ loop' = LoopStart(currentInterval)
    /\ UNCHANGED <<p, currentInterval, fundsReceived, sent, inFinalization, ret, payments>>
    /\ UNCHANGED <<fetchVars, tokenVars>>

\* Entry of nextInterval(currentInterval)
EnternextInterval ==
    /\ called = "none"
    /\ called' = "nextInterval"
    /\ loop' = LoopStart(currentInterval)
    /\ UNCHANGED <<p, currentInterval, fundsReceived, sent, inFinalization, ret, payments>>
    /\ UNCHANGED <<fetchVars, tokenVars>>

\* NextInterval(fundsReceived) up to its call of nextInterval
EnterNextInterval ==
    /\ called = "none"
    /\ called' = "NextInterval"
    /\ IF NilOrZero(p.PricePerByte)
       THEN /\ ret' = Value(0)
            /\ loop' = [LoopIdle EXCEPT !.pc = "returned"]
       ELSE /\ ret' = ret
            /\ loop' = LoopStart(LET bytesPaid == BytesPaid(p, fundsReceived)
                                 IN  IF bytesPaid > 0 THEN Uint64Of(bytesPaid) ELSE 0)
    /\ UNCHANGED <<p, currentInterval, fundsReceived, sent, inFinalization, payments>>
    /\ UNCHANGED <<fetchVars, tokenVars>>

\* One iteration of the for loop: the test holds and the body runs
LoopIterate ==
    /\ loop.pc = "test"
    /\ loop.target <= loop.cur
    /\ loop' = [loop EXCEPT
                  !.lowerBound = IF called = "IntervalLowerBound" THEN loop.target ELSE @,
                  !.target = AddU(loop.target, loop.intervalSize),
                  !.intervalSize = AddU(loop.intervalSize, p.PaymentIntervalIncrease)]
    /\ UNCHANGED <<p, currentInterval, fundsReceived, sent, inFinalization, called, ret,
                   payments>>
    /\ UNCHANGED <<fetchVars, tokenVars>>

\* The test fails: return lowerBound, or return nextInterval
LoopReturn ==
    /\ loop.pc = "test"
    /\ ~(loop.target <= loop.cur)
    /\ loop' = [loop EXCEPT !.pc = "returned"]
    /\ ret' = Value(IF called = "IntervalLowerBound" THEN loop.lowerBound ELSE loop.target)
    /\ UNCHANGED <<p, currentInterval, fundsReceived, sent, inFinalization, called, payments>>
    /\ UNCHANGED <<fetchVars, tokenVars>>

NextLoop ==
    \/ EnterIntervalLowerBound
    \/ EnternextInterval
    \/ EnterNextInterval
    \/ LoopIterate
    \/ LoopReturn

SpecLoop == InitLoop /\ [][NextLoop]_vars /\ WF_vars(NextLoop)

\* What a call followed step by step returns is what the operators give.
LoopAgreesWithOperators ==
    loop.pc = "returned" =>
        ret = CASE called = "IntervalLowerBound" -> IntervalLowerBound(p, currentInterval)
                [] called = "nextInterval" -> nextInterval(p, currentInterval)
                [] OTHER -> NextInterval(p, fundsReceived)

\* C13: IntervalLowerBound, nextInterval and NextInterval terminate and return
\* a value for every Params within the stated invariant and every argument.
C13_Terminates == <>(loop.pc = "returned")

(***************************************************************************)
(* A consumer paying what OutstandingBalance reports                       *)
(***************************************************************************)

MaxPayments == 3

InitPay ==
    /\ p \in [PricePerByte : {Tok(n) : n \in 0 .. MaxPrice}, PaymentInterval : Uint,
              PaymentIntervalIncrease : Uint,
              UnsealPrice : {Tok(n) : n \in 0 .. MaxUnsealPrice}]
    /\ currentInterval = 0
    /\ fundsReceived \in 0 .. MaxFunds
    /\ sent \in Uint
    /\ inFinalization \in BOOLEAN
    /\ called = "none"
    /\ ret = NoRet
    /\ loop = LoopIdle
    /\ payments = 0
    /\ TokenIdle
    /\ FetchIdle

\* the provider reports the balance of the funds received so far
ReportBalance ==
    /\ called = "none"
    /\ called' = "OutstandingBalance"
    /\ ret' = OutstandingBalance(p, fundsReceived, sent, inFinalization)
    /\ UNCHANGED <<p, currentInterval, fundsReceived, sent, inFinalization, loop, payments>>
    /\ UNCHANGED <<fetchVars, tokenVars>>

\* the consumer pays exactly the reported balance
PayReported ==
    /\ called = "OutstandingBalance"
    /\ ret.kind = "value"
    /\ ret.val > 0
    /\ payments < MaxPayments
    /\ fundsReceived' = fundsReceived + ret.val
    /\ payments' = payments + 1
    /\ called' = "none"
    /\ ret' = NoRet
    /\ UNCHANGED <<p, currentInterval, sent, inFinalization, loop>>
    /\ UNCHANGED <<fetchVars, tokenVars>>

NextPay == ReportBalance \/ PayReported

SpecPay == InitPay /\ [][NextPay]_vars

BalanceReported == called = "OutstandingBalance" /\ ret.kind = "value"

\* C14: paying what is demanded settles the demand. If fundsReceived >=
\* unsealPrice and owed is the reported balance, the balance of fundsReceived +
\* owed is 0; a consumer that repeatedly pays exactly the reported balance is
\* reported a balance of 0 after at most two payments, and its total funds are
\* then unsealPrice + minimumBytesToPay * pricePerByte whenever a payment was
\* needed.
C14_PayingSettlesDemand ==
    BalanceReported =>
        /\ (fundsReceived >= p.UnsealPrice.int) =>
               OutstandingBalance(p, fundsReceived + ret.val, sent, inFinalization)
                   = Value(0)
        /\ (payments >= 2) => ret.val = 0
        /\ (ret.val = 0 /\ payments >= 1) =>
               fundsReceived = p.UnsealPrice.int + ClaimedRequiredPayment

(***************************************************************************)
(* TokenAmount serialization (package shared/tokenamount).  The package's  *)
(* implementation is described by its specification and its tests: Bytes   *)
(* and FromBytes carry a big-endian magnitude, the CBOR form is a byte     *)
(* string holding a sign byte and the magnitude, nil being the empty byte  *)
(* string "@".                                                             *)
(***************************************************************************)

MaxAmount == 300
MaxRawLen == 2

ByteBase == 256

\* header of a CBOR byte string of length 0: the byte '@'
CborBytesHeader == 64

AbsInt(n) == IF n < 0 THEN 0 - n ELSE n

\* shortest big-endian form of n >= 0; empty for 0
RECURSIVE Magnitude(_)
Magnitude(n) ==
    IF n = 0 THEN <<>> ELSE Append(Magnitude(n \div ByteBase), n % ByteBase)

\* the number a byte sequence is the big-endian magnitude of
RECURSIVE SetBytes(_)
SetBytes(b) ==
    IF Len(b) = 0 THEN 0
    ELSE SetBytes(SubSeq(b, 1, Len(b) - 1)) * ByteBase + b[Len(b)]

Bytes(a) == IF a.isNil THEN <<>> ELSE Magnitude(AbsInt(a.int))

FromBytes(b) == Tok(SetBytes(b))

SignByteDropped(n) == 0

SignByte(n) == IF n < 0 THEN 1 ELSE 0

cborBytes(a) ==
    IF a.isNil THEN <<>> ELSE <<SignByte(a.int)>> \o Magnitude(AbsInt(a.int))

MarshalCBOR(a) == <<CborBytesHeader + Len(cborBytes(a))>> \o cborBytes(a)

fromCborBytes(buf) ==
    IF Len(buf) = 0 THEN Nil
    ELSE LET n == SetBytes(Tail(buf))
         IN  IF Head(buf) = 1 THEN Tok(0 - n) ELSE Tok(n)

UnmarshalCBOR(w) == fromCborBytes(Tail(w))

RawByte == {0, 1, 103, ByteBase - 1}

RECURSIVE RawBytes(_)
RawBytes(len) ==
    IF len = 0 THEN {<<>>}
    ELSE RawBytes(len - 1)
         \cup {Append(b, x) : b \in {c \in RawBytes(len - 1) : Len(c) = len - 1},
                              x \in RawByte}

InitToken ==
    /\ p = [PricePerByte |-> Tok(0), PaymentInterval |-> 0,
            PaymentIntervalIncrease |-> 0, UnsealPrice |-> Tok(0)]
    /\ currentInterval = 0
    /\ fundsReceived = 0
    /\ sent = 0
    /\ inFinalization = FALSE
    /\ called = "none"
    /\ ret = NoRet
    /\ loop = LoopIdle
    /\ payments = 0
    /\ amount \in {Nil} \cup {Tok(n) : n \in (0 - MaxAmount) .. MaxAmount}
    /\ wire = <<>>
    /\ decoded = Nil
    /\ FetchIdle

TokenStep(op) ==
    /\ called' = op
    /\ UNCHANGED <<p, currentInterval, fundsReceived, sent, inFinalization, ret, loop,
                   payments, amount>>
    /\ UNCHANGED fetchVars

CallBytes ==
    /\ called = "none"
    /\ wire' = Bytes(amount)
    /\ UNCHANGED decoded
    /\ TokenStep("Bytes")

CallFromBytes ==
    /\ called = "Bytes"
    /\ decoded' = FromBytes(wire)
    /\ UNCHANGED wire
    /\ TokenStep("FromBytes")

\* bytes that no TokenAmount was encoded to reach FromBytes
FromBytesOfRaw ==
    /\ called = "none"
    /\ amount.isNil
    /\ \E b \in RawBytes(MaxRawLen) :
           /\ wire' = b
           /\ decoded' = FromBytes(b)
    /\ TokenStep("FromBytesOfRaw")

CallMarshalCBOR ==
    /\ called = "none"
    /\ wire' = MarshalCBOR(amount)
    /\ UNCHANGED decoded
    /\ TokenStep("MarshalCBOR")

CallUnmarshalCBOR ==
    /\ called = "MarshalCBOR"
    /\ decoded' = UnmarshalCBOR(wire)
    /\ UNCHANGED wire
    /\ TokenStep("UnmarshalCBOR")

NextToken ==
    \/ CallBytes
    \/ CallFromBytes
    \/ FromBytesOfRaw
    \/ CallMarshalCBOR
    \/ CallUnmarshalCBOR

SpecToken == InitToken /\ [][NextToken]_vars

CborNil == <<CborBytesHeader>>

\* the CBOR form reads back every non-nil value
CborRoundTrip ==
    (called = "UnmarshalCBOR" /\ ~amount.isNil) => decoded = amount

\* nil is written as the empty sentinel in both forms
NilEncodesToSentinel ==
    /\ (called = "Bytes" /\ amount.isNil) => wire = <<>>
    /\ (called = "MarshalCBOR" /\ amount.isNil) => wire = CborNil

\* "@" is the CBOR form of nil only, and reads back as nil
CborSentinelIsNil ==
    /\ (called = "MarshalCBOR" /\ wire = CborNil) => amount.isNil
    /\ (called = "UnmarshalCBOR" /\ wire = CborNil) => decoded.isNil

RawBytesDecode ==
    (called = "FromBytesOfRaw") =>
        /\ ~decoded.isNil
        /\ decoded.int >= 0
        /\ (wire = <<103, 103>>) => decoded.int = 103 * ByteBase + 103

===========================================================================
